---------------------------- MODULE Spec2Model ----------------------------
(*************************************************************************)
(* IPL analytics dashboard (src/app.py): the memoised loader load_data   *)
(* and the aggregations of the five pages, as a state machine.           *)
(*                                                                       *)
(* One script run is: load_data() (line 66, served by st.cache_data),    *)
(* then the branch of the selected page (lines 87-308).  Every user      *)
(* interaction starts a new run of the whole script in the same process. *)
(*                                                                       *)
(* Tables are sequences of records (one record per row, one field per    *)
(* column).  An absent cell is NaN.  A table variable that is None in    *)
(* Python is the empty tuple None, a present table t is <<t>>.           *)
(*************************************************************************)
EXTENDS Integers, Sequences, FiniteSets

VARIABLES
    csv_matches,     \* rows of matches.csv
    csv_deliveries,  \* rows of deliveries.csv
    cache,           \* st.cache_data store of load_data: <<>> or <<result>>
    reads,           \* number of executions of the body of load_data
    cache_hit,       \* this run's load_data call was served from the cache
    matches,         \* module global `matches` of the current run
    deliveries,      \* module global `deliveries` of the current run
    error_shown,     \* st.error was issued by load_data
    exception,       \* uncaught exception that ended the current run
    pc,              \* position of the script run: "run", "page", "done"
    view             \* what the page branch rendered

vars == <<csv_matches, csv_deliveries, cache, reads, cache_hit, matches,
          deliveries, error_shown, exception, pc, view>>

-----------------------------------------------------------------------------
(* Bounds of the model *)

MaxRows == 3
MaxDeliveries == 2

(* Values of the model *)

NaN == "NaN"
None == <<>>
PyNone == "None"
NoException == "none"

Teams == {"A", "B", "C"}
Fixtures == {<<"A", "B">>, <<"A", "C">>, <<"B", "C">>}
Seasons == {"2008", "2009"}
SortedLabels == <<"2008", "2009">>   \* ascending order of the season labels
MatchIds == {1, 2}
DeliveryMatchIds == {1, 3}
RunValues == {1, 4}

Min(a, b) == IF a < b THEN a ELSE b

RECURSIVE SumSeq(_)
SumSeq(s) == IF s = <<>> THEN 0 ELSE Head(s) + SumSeq(Tail(s))

-----------------------------------------------------------------------------
(* pandas primitives used by the script *)

\* df[c]: the column c of a table
Column(t, c) == [i \in 1..Len(t) |-> t[i][c]]

\* Series.fillna(value, inplace=True) on column c
FillNa(t, c, value) ==
    [i \in 1..Len(t) |-> IF t[i][c] = NaN THEN [t[i] EXCEPT ![c] = value] ELSE t[i]]

\* Series.unique(): distinct values in order of first occurrence
RECURSIVE Unique(_)
Unique(col) ==
    IF col = <<>> THEN <<>>
    ELSE LET front == SubSeq(col, 1, Len(col) - 1)
             last == col[Len(col)]
             u == Unique(front)
         IN IF \E i \in 1..Len(u) : u[i] = last THEN u ELSE Append(u, last)

DropNa(col) == SelectSeq(col, LAMBDA v : v # NaN)

Occurrences(col, v) == Cardinality({i \in 1..Len(col) : col[i] = v})

\* Series.nunique()
NUnique(col) == Len(Unique(DropNa(col)))

\* .loc[:n], whose end is inclusive, in place of .head(n)
HeadInclusive(s, n) == SubSeq(s, 1, Min(n + 1, Len(s)))

\* .head(n)
HeadN(s, n) == SubSeq(s, 1, Min(n, Len(s)))

\* Series.value_counts(): one <<value, count>> entry per distinct present
\* value, sorted by count descending with sort_values' default
\* kind='quicksort', which is not stable: the order among equal counts is
\* any order.  The set of the results the sort can produce.
ValueCounts(col) ==
    LET keys == Unique(DropNa(col))
        k == Len(keys)
        cnt(i) == Occurrences(col, keys[i])
        Orders == {p \in [1..k -> 1..k] :
                      /\ \A i, j \in 1..k : i # j => p[i] # p[j]
                      /\ \A i \in 1..k : i < k => cnt(p[i]) >= cnt(p[i + 1])}
    IN {[i \in 1..k |-> <<keys[p[i]], cnt(p[i])>>] : p \in Orders}

\* .nunique() in place of .size(): every group counts once
GroupByNUnique(t, key) ==
    LET col == Column(t, key)
        present == SelectSeq(SortedLabels, LAMBDA s : Occurrences(col, s) > 0)
    IN [i \in 1..Len(present) |-> <<present[i], 1>>]

\* df.groupby(key).size(): one <<key, rows>> entry per present key value,
\* ascending by key; rows with an absent key are dropped
GroupBySize(t, key) ==
    LET col == Column(t, key)
        present == SelectSeq(SortedLabels, LAMBDA s : Occurrences(col, s) > 0)
    IN [i \in 1..Len(present) |-> <<present[i], Occurrences(col, present[i])>>]

\* df.groupby(key)[val].sum()
GroupBySum(t, key, val) ==
    LET col == Column(t, key)
        present == SelectSeq(SortedLabels, LAMBDA s : Occurrences(col, s) > 0)
        total(s) == SumSeq(Column(SelectSeq(t, LAMBDA r : r[key] = s), val))
    IN [i \in 1..Len(present) |-> <<present[i], total(present[i])>>]

\* how='inner' in place of how='left': unmatched left rows are dropped
RECURSIVE MergeInner(_, _)
MergeInner(left, right) ==
    IF left = <<>> THEN <<>>
    ELSE LET d == Head(left)
             hits == SelectSeq(right, LAMBDA m : m.id = d.match_id)
         IN [i \in 1..Len(hits) |->
               [match_id |-> d.match_id, total_runs |-> d.total_runs,
                season |-> hits[i].season]] \o MergeInner(Tail(left), right)

\* left.merge(right[['id', 'season']], left_on='match_id', right_on='id',
\* how='left'): every left row once per right row with the same id, in left
\* order, and once with an absent season when no right row has that id.
\* (The joined id column is never read by the script and is not kept.)
RECURSIVE MergeLeft(_, _)
MergeLeft(left, right) ==
    IF left = <<>> THEN <<>>
    ELSE LET d == Head(left)
             hits == SelectSeq(right, LAMBDA m : m.id = d.match_id)
             joined == IF hits = <<>>
                       THEN <<[match_id |-> d.match_id, total_runs |-> d.total_runs,
                               season |-> NaN]>>
                       ELSE [i \in 1..Len(hits) |->
                               [match_id |-> d.match_id, total_runs |-> d.total_runs,
                                season |-> hits[i].season]]
         IN joined \o MergeLeft(Tail(left), right)

-----------------------------------------------------------------------------
(* load_data, lines 41-64 *)

\* the steps of the try block at which an exception can be raised
Faults == {"read_matches", "read_deliveries", "fillna", "merge"}

\* line 50 left out: the winner column is not filled
CleanMatchesNoWinner(m) ==
    FillNa(FillNa(m, "city", "Unknown"), "player_of_match", "Unknown")

\* lines 49-51
CleanMatches(m) ==
    FillNa(FillNa(FillNa(m, "city", "Unknown"), "winner", "No Result"),
           "player_of_match", "Unknown")

\* `except Exception`, line 62: every fault of the try block is caught
Caught(f) == TRUE

\* the handler returning the table already read when deliveries.csv fails
LoadResultPartial(f) ==
    IF f = "none"
    THEN [matches |-> <<CleanMatches(csv_matches)>>,
          deliveries |-> <<MergeLeft(csv_deliveries, CleanMatches(csv_matches))>>]
    ELSE IF f = "read_deliveries"
    THEN [matches |-> <<csv_matches>>, deliveries |-> None]
    ELSE [matches |-> None, deliveries |-> None]

\* the value load_data returns: line 61 when no step fails, line 64 otherwise
LoadResult(f) ==
    IF f = "none"
    THEN [matches |-> <<CleanMatches(csv_matches)>>,
          deliveries |-> <<MergeLeft(csv_deliveries, CleanMatches(csv_matches))>>]
    ELSE [matches |-> None, deliveries |-> None]


\* the decorator left out: nothing is stored
CacheStoreNothing(result) == <<>>

\* st.cache_data, line 41: the entry stored for the (argument-less) call
CacheStore(result) == <<result>>

-----------------------------------------------------------------------------
(* Home page, lines 91-138 *)

TopTeams == 5
PieLabels == <<"Won Match", "Lost Match">>

\* the filter of line 129 left out
MatchesUnfiltered(m) == m

\* line 129
MatchesWithResult(m) == SelectSeq(m, LAMBDA r : r.winner # "No Result")

\* lines 130-132: the boolean column toss_winner == winner
TossWinnerIsMatchWinner(m) ==
    [i \in 1..Len(m) |-> IF m[i].toss_winner = m[i].winner THEN "True" ELSE "False"]

\* go.Pie(labels=..., values=toss_impact.values), lines 134-136: label i is
\* drawn with value i, for as many slices as both arrays have
Pie(labels, counts) ==
    [i \in 1..Min(Len(labels), Len(counts)) |-> <<labels[i], counts[i][2]>>]

-----------------------------------------------------------------------------
(* Team Analysis page, lines 147-189 *)

\* lines 149-150: the options of the select box; an empty box selects None
TeamOptions(m) ==
    IF m = <<>> THEN {PyNone} ELSE {m[i].team1 : i \in 1..Len(m)}

\* only the team1 column compared
TeamMatchesHomeOnly(m, t) == SelectSeq(m, LAMBDA r : r.team1 = t)

\* line 153
TeamMatches(m, t) == SelectSeq(m, LAMBDA r : r.team1 = t \/ r.team2 = t)

\* line 154
TeamWins(m, t) == SelectSeq(m, LAMBDA r : r.winner = t)

\* the guard `if len(team_matches) > 0` left out
WinRateUnguarded(wins, played) == <<wins * 100, played>>

\* line 163: the quotient wins / played * 100 as the fraction <<num, den>>;
\* a denominator 0 is a division by zero
WinRate(wins, played) == IF played > 0 THEN <<wins * 100, played>> ELSE <<0, 1>>

-----------------------------------------------------------------------------
(* The script *)

NoView == [page |-> "none", rendered |-> FALSE]
Blank(p) == [page |-> p, rendered |-> FALSE]

DefaultRow ==
    [id |-> 0, season |-> "2008", team1 |-> "A", team2 |-> "B", toss_winner |-> "A",
     winner |-> "A", city |-> "Chennai", player_of_match |-> "P1"]

\* tables of at most MaxRows rows drawn from rows, ids numbered 1, 2, ...
Numbered(rows) ==
    UNION {{[i \in 1..n |-> [f[i] EXCEPT !.id = i]] : f \in [1..n -> rows]} : n \in 0..MaxRows}

SeqsUpTo(rows, n) == UNION {[1..k -> rows] : k \in 0..n}

\* matches.csv files that vary the fixture and the recorded winner
TeamFiles ==
    Numbered({[DefaultRow EXCEPT !.team1 = x[1], !.team2 = x[2], !.toss_winner = x[1],
                                 !.winner = w] :
                 x \in Fixtures, w \in Teams \cup {NaN}})

\* matches.csv files that vary the toss winner and the winner
TossFiles ==
    Numbered({[DefaultRow EXCEPT !.toss_winner = t, !.winner = w] :
                 t \in {"A", "B"}, w \in {"A", "B", NaN}})

\* matches.csv files that vary the three cleaned columns
SparseFiles ==
    Numbered({[DefaultRow EXCEPT !.winner = w, !.city = c, !.player_of_match = p] :
                 w \in {"A", NaN}, c \in {"Chennai", NaN}, p \in {"P1", NaN}})

\* matches.csv files that vary id and season
SeasonFiles ==
    SeqsUpTo({[DefaultRow EXCEPT !.id = i, !.season = s] : i \in MatchIds, s \in Seasons},
             MaxRows)

DeliveryFiles ==
    SeqsUpTo({[match_id |-> i, total_runs |-> r] : i \in DeliveryMatchIds, r \in RunValues},
             MaxDeliveries)

OneDelivery == <<[match_id |-> 1, total_runs |-> 1]>>

Init ==
    /\ \/ csv_matches \in TeamFiles \cup TossFiles \cup SparseFiles
          /\ csv_deliveries = OneDelivery
       \/ csv_matches \in SeasonFiles /\ csv_deliveries \in DeliveryFiles
    /\ cache = <<>>
    /\ reads = 0
    /\ cache_hit = FALSE
    /\ matches = None
    /\ deliveries = None
    /\ error_shown = FALSE
    /\ exception = NoException
    /\ pc = "run"
    /\ view = NoView

\* line 66, nothing cached yet: the body of load_data runs; f is the step
\* that raises, or "none"
LoadData ==
    /\ pc = "run"
    /\ cache = <<>>
    /\ \E f \in Faults \cup {"none"} :
         LET result == LoadResult(f) IN
         /\ reads' = reads + 1
         /\ IF f = "none" \/ Caught(f)
            THEN /\ cache' = CacheStore(result)
                 /\ matches' = result.matches
                 /\ deliveries' = result.deliveries
                 /\ error_shown' = (f # "none")
                 /\ exception' = NoException
                 /\ pc' = "page"
            ELSE /\ exception' = f
                 /\ pc' = "done"
                 /\ UNCHANGED <<cache, matches, deliveries, error_shown>>
    /\ UNCHANGED <<csv_matches, csv_deliveries, cache_hit, view>>

\* line 66, a cached entry exists: it is returned (and its st.error replayed)
\* without running the body
LoadCached ==
    /\ pc = "run"
    /\ cache # <<>>
    /\ cache_hit' = TRUE
    /\ matches' = cache[1].matches
    /\ deliveries' = cache[1].deliveries
    /\ error_shown' = (cache[1].matches = None)
    /\ pc' = "page"
    /\ UNCHANGED <<csv_matches, csv_deliveries, cache, reads, exception, view>>

\* lines 87-138 (without the venue metric of line 102)
HomePage ==
    /\ pc = "page"
    /\ pc' = "done"
    /\ IF matches # None
       THEN LET m == matches[1]
                decided == MatchesWithResult(m)
            IN \E wc \in ValueCounts(Column(m, "winner")),
                  ti \in ValueCounts(TossWinnerIsMatchWinner(decided)) :
                 view' = [page |-> "Home", rendered |-> TRUE,
                          total_matches |-> Len(m),
                          total_seasons |-> NUnique(Column(m, "season")),
                          total_teams |-> NUnique(Column(m, "team1")),
                          matches_per_season |-> GroupBySize(m, "season"),
                          winner_counts |-> wc,
                          team_wins |-> HeadN(wc, TopTeams),
                          toss_impact |-> ti,
                          pie |-> Pie(PieLabels, ti)]
       ELSE view' = Blank("Home")
    /\ UNCHANGED <<csv_matches, csv_deliveries, cache, reads, cache_hit, matches,
                   deliveries, error_shown, exception>>

\* lines 144-180 (the venue chart of lines 182-189 reads a column the
\* tables of the model do not hold)
TeamAnalysisPage ==
    /\ pc = "page"
    /\ pc' = "done"
    /\ IF matches # None
       THEN LET m == matches[1] IN
            \E selected_team \in TeamOptions(m) :
              LET team_matches == TeamMatches(m, selected_team)
                  team_wins == TeamWins(m, selected_team)
                  win_rate == WinRate(Len(team_wins), Len(team_matches))
              IN IF win_rate[2] = 0
                 THEN /\ exception' = "ZeroDivisionError"
                      /\ view' = Blank("Team")
                 ELSE /\ exception' = exception
                      /\ view' = [page |-> "Team", rendered |-> TRUE,
                                  selected_team |-> selected_team,
                                  total_matches |-> Len(team_matches),
                                  total_wins |-> Len(team_wins),
                                  win_rate |-> win_rate,
                                  total_losses |-> Len(team_matches) - Len(team_wins),
                                  season_wins |-> GroupBySize(team_wins, "season")]
       ELSE /\ view' = Blank("Team")
            /\ exception' = exception
    /\ UNCHANGED <<csv_matches, csv_deliveries, cache, reads, cache_hit, matches,
                   deliveries, error_shown>>

\* lines 195-238 (the awards tab; the slider's default is 10)
PlayerStatsPage ==
    /\ pc = "page"
    /\ pc' = "done"
    /\ IF matches # None /\ deliveries # None
       THEN \E pom \in ValueCounts(Column(matches[1], "player_of_match")) :
              view' = [page |-> "Player", rendered |-> TRUE, top_pom |-> HeadN(pom, 10)]
       ELSE view' = Blank("Player")
    /\ UNCHANGED <<csv_matches, csv_deliveries, cache, reads, cache_hit, matches,
                   deliveries, error_shown, exception>>

\* lines 244-267 (the city chart)
VenueAnalysisPage ==
    /\ pc = "page"
    /\ pc' = "done"
    /\ IF matches # None
       THEN \E cm \in ValueCounts(Column(matches[1], "city")) :
              view' = [page |-> "Venue", rendered |-> TRUE, city_matches |-> HeadN(cm, 10)]
       ELSE view' = Blank("Venue")
    /\ UNCHANGED <<csv_matches, csv_deliveries, cache, reads, cache_hit, matches,
                   deliveries, error_shown, exception>>

\* lines 273-285
TrendsPage ==
    /\ pc = "page"
    /\ pc' = "done"
    /\ IF matches # None /\ deliveries # None
       THEN view' = [page |-> "Trends", rendered |-> TRUE,
                     runs_per_season |-> GroupBySum(deliveries[1], "season", "total_runs")]
       ELSE view' = Blank("Trends")
    /\ UNCHANGED <<csv_matches, csv_deliveries, cache, reads, cache_hit, matches,
                   deliveries, error_shown, exception>>

\* a user interaction: the script runs again from the top in the same process
Rerun ==
    /\ pc = "done"
    /\ pc' = "run"
    /\ matches' = None
    /\ deliveries' = None
    /\ cache_hit' = FALSE
    /\ error_shown' = FALSE
    /\ exception' = NoException
    /\ view' = NoView
    /\ UNCHANGED <<csv_matches, csv_deliveries, cache, reads>>

Next ==
    \/ LoadData
    \/ LoadCached
    \/ HomePage
    \/ TeamAnalysisPage
    \/ PlayerStatsPage
    \/ VenueAnalysisPage
    \/ TrendsPage
    \/ Rerun

Spec == Init /\ [][Next]_vars

-----------------------------------------------------------------------------
(* Properties *)

Rendered(p) == pc = "done" /\ view.page = p /\ view.rendered

\* the sum of the counts of a sequence of <<key, count>> entries
SumCounts(s) == SumSeq([i \in 1..Len(s) |-> s[i][2]])

Rows(t, P(_)) == {i \in 1..Len(t) : P(t[i])}

\* every row's winner took part in the row's match, or the match has no result
WinnersTookPart(t) ==
    \A i \in 1..Len(t) : t[i].winner \in {t[i].team1, t[i].team2, "No Result"}

\* C1 as stated: for every team t and every loaded match table, the rows
\* with team1 = t or team2 = t are at least as many as the rows with
\* winner = t, and the Total Losses shown are never negative.
C1_LossesNeverNegative ==
    Rendered("Team") =>
       /\ Len(TeamMatches(matches[1], view.selected_team))
            >= Len(TeamWins(matches[1], view.selected_team))
       /\ view.total_losses >= 0

\* C1 amended: the same, for the loaded match tables in which every row's
\* winner is the row's team1, its team2 or "No Result", and every team t
\* other than "No Result".
C1_LossesNonNegativeWhenWinnersTookPart ==
    (matches # None /\ WinnersTookPart(matches[1])) =>
       /\ \A t \in Teams \cup {PyNone} :
            Cardinality(Rows(matches[1], LAMBDA r : r.team1 = t \/ r.team2 = t))
              >= Cardinality(Rows(matches[1], LAMBDA r : r.winner = t))
       /\ Rendered("Team") =>
            /\ view.total_matches =
                 Cardinality(Rows(matches[1], LAMBDA r : r.team1 = view.selected_team
                                                       \/ r.team2 = view.selected_team))
            /\ view.total_wins =
                 Cardinality(Rows(matches[1], LAMBDA r : r.winner = view.selected_team))
            /\ view.total_matches >= view.total_wins
            /\ view.total_losses = view.total_matches - view.total_wins
            /\ view.total_losses >= 0

C1_Witness ==
    /\ Rendered("Team")
    /\ WinnersTookPart(matches[1])
    /\ view.total_wins >= 1
    /\ view.total_losses >= 1
    /\ \E i \in 1..Len(matches[1]) :
         matches[1][i].team2 = view.selected_team /\ matches[1][i].winner = view.selected_team

\* C2: the per-season counts of the Home page sum to the number of rows of
\* the match table.
C2_SeasonCountsSumToRows ==
    Rendered("Home") =>
       /\ SumCounts(view.matches_per_season) = Len(matches[1])
       /\ Len(matches[1]) = Len(csv_matches)
       /\ \A i \in 1..Len(view.matches_per_season) :
            view.matches_per_season[i][2] =
              Cardinality(Rows(matches[1], LAMBDA r : r.season = view.matches_per_season[i][1]))

C2_Witness ==
    /\ Rendered("Home")
    /\ Len(view.matches_per_season) = 2
    /\ view.matches_per_season[1][2] = 2
    /\ Len(matches[1]) = 3

\* C3: the toss-impact buckets sum to the number of match rows whose winner
\* is not "No Result"; no "No Result" row is counted in either bucket.
C3_TossBucketsSumToDecided ==
    Rendered("Home") =>
       /\ SumCounts(view.toss_impact) =
            Cardinality(Rows(matches[1], LAMBDA r : r.winner # "No Result"))
       /\ \A i \in 1..Len(view.toss_impact) :
            view.toss_impact[i][2] =
              Cardinality(Rows(matches[1], LAMBDA r :
                 /\ r.winner # "No Result"
                 /\ (r.toss_winner = r.winner) <=> (view.toss_impact[i][1] = "True")))

C3_Witness ==
    /\ Rendered("Home")
    /\ Len(view.toss_impact) = 2
    /\ \E i \in 1..Len(matches[1]) : matches[1][i].winner = "No Result"

\* position of the first row of column col that holds v
FirstOccurrence(col, v) == CHOOSE i \in 1..Len(col) : col[i] = v /\ \A j \in 1..(i - 1) : col[j] # v

DistinctWinners(t) == {t[i].winner : i \in 1..Len(t)}

\* C4 as stated: topWinningTeams(n) has min(n, distinct winners) entries,
\* strictly descending by count, entries of equal count in the order of
\* their first occurrence in the match table.
C4_TopTeamsStableOrder ==
    Rendered("Home") =>
       LET wc == view.winner_counts
           col == Column(matches[1], "winner")
       IN /\ \A n \in 0..(TopTeams + 1) :
               Len(HeadN(wc, n)) = Min(n, Cardinality(DistinctWinners(matches[1])))
          /\ \A i, j \in 1..Len(wc) :
               i < j => \/ wc[i][2] > wc[j][2]
                        \/ /\ wc[i][2] = wc[j][2]
                           /\ FirstOccurrence(col, wc[i][1]) < FirstOccurrence(col, wc[j][1])

\* C4 amended: topWinningTeams(n) has min(n, distinct winners) entries, one
\* per winner value with its number of rows, in non-increasing order of
\* count; the order among entries of equal count is not determined.
C4_TopTeamsDescending ==
    Rendered("Home") =>
       LET wc == view.winner_counts
           col == Column(matches[1], "winner")
       IN /\ view.team_wins = HeadN(wc, TopTeams)
          /\ \A n \in 0..(TopTeams + 1) :
               /\ Len(HeadN(wc, n)) = Min(n, Cardinality(DistinctWinners(matches[1])))
               /\ \A i \in 1..Len(HeadN(wc, n)) : HeadN(wc, n)[i] = wc[i]
          /\ \A i, j \in 1..Len(wc) : i < j => wc[i][2] >= wc[j][2] /\ wc[i][1] # wc[j][1]
          /\ \A i \in 1..Len(wc) :
               /\ wc[i][1] \in DistinctWinners(matches[1])
               /\ wc[i][2] = Cardinality(Rows(matches[1], LAMBDA r : r.winner = wc[i][1]))

C4_Witness ==
    /\ Rendered("Home")
    /\ Len(view.winner_counts) = 3
    /\ view.winner_counts[1][2] = 1
    /\ FirstOccurrence(Column(matches[1], "winner"), view.winner_counts[1][1]) = 3
    /\ Len(HeadN(view.winner_counts, 2)) = 2

\* C5: a failure at any step of load yields the error outcome with both
\* tables unavailable together; no exception escapes load; after a failed
\* load no page computes an aggregation.
C5_FailedLoadIsWhole ==
    /\ (matches = None) <=> (deliveries = None)
    /\ cache # <<>> => ((cache[1].matches = None) <=> (cache[1].deliveries = None))
    /\ exception \notin Faults
    /\ pc \in {"page", "done"} => (error_shown <=> matches = None)
    /\ error_shown => ~view.rendered

C5_Witness ==
    /\ pc = "done"
    /\ error_shown
    /\ reads = 1
    /\ ~cache_hit
    /\ matches = None
    /\ deliveries = None
    /\ view = Blank("Trends")

\* C6: every call of load after the first returns the first call's result,
\* and the files are read and joined at most once, also when the first call
\* failed.
C6_LoadedOnce ==
    /\ [](/\ reads <= 1
          /\ pc \in {"page", "done"} =>
               /\ cache # <<>>
               /\ reads = 1
               /\ matches = cache[1].matches
               /\ deliveries = cache[1].deliveries)
    /\ [][cache # <<>> => cache' = cache /\ reads' = reads]_vars

C6_Witness ==
    /\ cache_hit
    /\ reads = 1
    /\ Rendered("Home")
    /\ matches = <<CleanMatches(csv_matches)>>
    /\ Len(csv_matches) = 2

\* C7: for a team without a match the win rate is 0 and nothing faults; for
\* a team with matches it is wins / matches * 100.
C7_WinRateGuarded ==
    /\ exception # "ZeroDivisionError"
    /\ Rendered("Team") =>
         /\ view.win_rate[2] # 0
         /\ view.total_matches = 0 => view.win_rate[1] = 0
         /\ view.total_matches > 0 =>
              view.win_rate[1] * view.total_matches = view.total_wins * 100 * view.win_rate[2]
    /\ (pc = "done" /\ view.page = "Team" /\ matches # None) => view.rendered

C7_Witness ==
    /\ Rendered("Team")
    /\ view.selected_team = PyNone
    /\ view.total_matches = 0
    /\ view.win_rate[1] = 0

\* C8: after a successful load an absent winner is "No Result", an absent
\* city or player_of_match is "Unknown", none of the three is absent, present
\* values are unchanged, and "No Result" is a bucket of topWinningTeams with
\* the number of absent winners.
C8_SentinelsFilled ==
    /\ matches # None =>
         /\ Len(matches[1]) = Len(csv_matches)
         /\ \A i \in 1..Len(csv_matches) :
              LET src == csv_matches[i]
                  row == matches[1][i]
              IN /\ row.winner = (IF src.winner = NaN THEN "No Result" ELSE src.winner)
                 /\ row.city = (IF src.city = NaN THEN "Unknown" ELSE src.city)
                 /\ row.player_of_match =
                      (IF src.player_of_match = NaN THEN "Unknown" ELSE src.player_of_match)
                 /\ NaN \notin {row.winner, row.city, row.player_of_match}
                 /\ \A c \in {"id", "season", "team1", "team2", "toss_winner"} : row[c] = src[c]
    /\ Rendered("Home") =>
         LET absent == Cardinality(Rows(csv_matches, LAMBDA r : r.winner = NaN))
         IN absent > 0 =>
              \E i \in 1..Len(view.team_wins) : view.team_wins[i] = <<"No Result", absent>>

C8_Witness ==
    /\ Rendered("Home")
    /\ Len(csv_matches) = 2
    /\ csv_matches[1].winner = "A"
    /\ csv_matches[2].winner = NaN
    /\ csv_matches[2].city = NaN
    /\ matches[1][2].winner = "No Result"
    /\ \E i \in 1..Len(view.team_wins) : view.team_wins[i] = <<"No Result", 1>>

UniqueIds(t) == \A i, j \in 1..Len(t) : i # j => t[i].id # t[j].id

\* the delivery rows of deliveries.csv whose match_id is the id of a match
MatchedRuns ==
    SumSeq([i \in 1..Len(csv_deliveries) |->
              IF \E k \in 1..Len(csv_matches) : csv_matches[k].id = csv_deliveries[i].match_id
              THEN csv_deliveries[i].total_runs ELSE 0])

\* C9: over a match table with unique ids the delivery table has one row per
\* source delivery row, with the season of the match of its match_id, or an
\* absent season when there is none; the per-season run totals sum to the
\* total_runs of the matched deliveries.
C9_JoinKeepsDeliveries ==
    (deliveries # None /\ UniqueIds(csv_matches)) =>
       /\ Len(deliveries[1]) = Len(csv_deliveries)
       /\ \A i \in 1..Len(csv_deliveries) :
            LET src == csv_deliveries[i]
                row == deliveries[1][i]
            IN /\ row.match_id = src.match_id
               /\ row.total_runs = src.total_runs
               /\ \A k \in 1..Len(csv_matches) :
                    csv_matches[k].id = src.match_id => row.season = csv_matches[k].season
               /\ (\A k \in 1..Len(csv_matches) : csv_matches[k].id # src.match_id)
                    => row.season = NaN
       /\ Rendered("Trends") =>
            /\ SumCounts(view.runs_per_season) = MatchedRuns
            /\ \A i \in 1..Len(view.runs_per_season) :
                 /\ view.runs_per_season[i][1] # NaN
                 /\ view.runs_per_season[i][2] =
                      SumSeq([k \in 1..Len(deliveries[1]) |->
                                IF deliveries[1][k].season = view.runs_per_season[i][1]
                                THEN deliveries[1][k].total_runs ELSE 0])

C9_Witness ==
    /\ Rendered("Trends")
    /\ UniqueIds(csv_matches)
    /\ Len(csv_matches) = 2
    /\ Len(deliveries[1]) = 2
    /\ deliveries[1][1].season = "2009"
    /\ deliveries[1][2].season = NaN
    /\ view.runs_per_season = <<<<"2009", 4>>>>

TossWon(t) == Cardinality(Rows(t, LAMBDA r : r.winner # "No Result" /\ r.toss_winner = r.winner))
TossLost(t) == Cardinality(Rows(t, LAMBDA r : r.winner # "No Result" /\ r.toss_winner # r.winner))

\* C10: the pie of the Home page has two slices, "Won Match" with the number
\* of decided matches won by the toss winner and "Lost Match" with the number
\* lost by the toss winner, whichever count is larger; stated for the tables
\* in which the toss winner won at least one match and lost more than it won.
C10_PieLabelsMatchBuckets ==
    (Rendered("Home") /\ TossWon(matches[1]) > 0 /\ TossLost(matches[1]) > TossWon(matches[1])) =>
       view.pie = << <<"Won Match", TossWon(matches[1])>>,
                     <<"Lost Match", TossLost(matches[1])>> >>

=============================================================================
